---- MODULE Spec2Model ----
(***************************************************************************)
(* Model of the libdns provider for Dynu (package dynu).                   *)
(*                                                                         *)
(*   provider.go  Provider facade: GetRecords, AppendRecords, SetRecords,  *)
(*                DeleteRecords, and the two record translators            *)
(*                libdnsRecordToDnsRecord / dnsRecordToLibdnsRecord.       *)
(*   client.go    Client: GetRootDomain, GetRecords, AddOrUpdateRecord,    *)
(*                DeleteRecord, all behind one sync.Mutex.                 *)
(*                                                                         *)
(* Go strings are TLA+ strings; Len, SubSeq and \o act on them character   *)
(* by character.  time.Duration is an integer count of nanoseconds.        *)
(*                                                                         *)
(* Three specifications:                                                   *)
(*   TSpec     the translators and zoneToFqdn as pure functions, inputs    *)
(*             drawn in TInit                                              *)
(*   Spec      concurrent facade calls through one Provider and its Client *)
(*   LiveSpec  the same calls under fair scheduling of the client's steps  *)
(***************************************************************************)
EXTENDS Integers, Sequences, FiniteSets, TLC

VARIABLES
    \* ---- translator harness (TSpec) ----
    tpc,        \* "off" | "write" | "echo" | "read" | "done"
    tRec,       \* libdns.Record handed to libdnsRecordToDnsRecord
    tZone,      \* zone as the caller supplied it
    tDomain,    \* domain := zoneToFqdn(zone), the translators' argument
    tOwn,       \* ownDomain argument
    tDns,       \* result of libdnsRecordToDnsRecord: [rec, err]
    tEcho,      \* DNSRecord as returned by the provider
    tLib,       \* result of dnsRecordToLibdnsRecord
    \* ---- Provider / Client (Spec) ----
    OwnDomain,  \* Provider.OwnDomain
    clientInit, \* Provider.Once has run Init: Provider.Client exists
    ctxDone,    \* per caller: the ctx of its call has been cancelled
    mutex,      \* Client.mutex: the set of callers holding it (empty = unlocked)
    inFlight,   \* callers whose HTTP request is between Do() and its return
    pc,         \* per caller: "idle" | "lock" (at c.mutex.Lock) | "wait" | "done"
    cop,        \* per caller: client operation being executed
    op,         \* per caller: "get" | "append" | "set" | "delete"
    zone,       \* per caller: zone argument as supplied
    records,    \* per caller: input []libdns.Record
    idx,        \* per caller: loop index into records (1-based)
    dnsHostName,\* per caller: *DNSHostname returned by GetRootDomain
    out,        \* per caller: updatedRecords / deletedRecords / libRecords
    errs,       \* per caller: updateErrors / deleteErrors
    ret,        \* per caller: returned ([]Record, error) once done
    reqs,       \* per caller: requests handed to the HTTP transport so far
    returned    \* per caller: client operations that returned, with outcome

tvars == <<tpc, tRec, tZone, tDomain, tOwn, tDns, tEcho, tLib>>
pvars == <<OwnDomain, clientInit, ctxDone, mutex, inFlight, pc, cop, op, zone, records,
           idx, dnsHostName, out, errs, ret, reqs, returned>>
vars == <<tpc, tRec, tZone, tDomain, tOwn, tDns, tEcho, tLib,
          OwnDomain, clientInit, ctxDone, mutex, inFlight, pc, cop, op, zone,
          records, idx, dnsHostName, out, errs, ret, reqs, returned>>

(***************************************************************************)
(* Go string primitives (package strings)                                  *)
(***************************************************************************)
HasSuffix(s, suffix) ==
    /\ Len(s) >= Len(suffix)
    /\ SubSeq(s, Len(s) - Len(suffix) + 1, Len(s)) = suffix

TrimSuffix(s, suffix) ==
    IF HasSuffix(s, suffix) THEN SubSeq(s, 1, Len(s) - Len(suffix)) ELSE s

\* strings.TrimRight(s, "."): removes every trailing "."
RECURSIVE TrimRightDot(_)
TrimRightDot(s) ==
    IF Len(s) > 0 /\ SubSeq(s, Len(s), Len(s)) = "."
    THEN TrimRightDot(SubSeq(s, 1, Len(s) - 1))
    ELSE s

RECURSIVE TrimLeftDot(_)
TrimLeftDot(s) ==
    IF Len(s) > 0 /\ SubSeq(s, 1, 1) = "."
    THEN TrimLeftDot(SubSeq(s, 2, Len(s)))
    ELSE s

\* strings.Trim(s, ".")
TrimDot(s) == TrimRightDot(TrimLeftDot(s))

(***************************************************************************)
(* libdns name helpers, as called from provider.go                         *)
(***************************************************************************)
\* libdns.RelativeName(fqdn, zone) of libdns v0.2: the zone is cut off as a
\* textual suffix, then one "."; a name that does not end in the zone is
\* returned whole
RelativeName(fqdn, z) == TrimSuffix(TrimSuffix(fqdn, z), ".")

\* libdns.AbsoluteName(name, zone)
AbsoluteName(name, z) ==
    IF z = "" THEN TrimDot(name)
    ELSE IF name = "" \/ name = "@" THEN z
    ELSE IF HasSuffix(name, ".") THEN name \o z
    ELSE name \o "." \o z

zoneToFqdn(z) == TrimRightDot(z)

(***************************************************************************)
(* fmt.Sscan(record.ID, &id) and fmt.Sprint(dnsRecord.ID)                  *)
(***************************************************************************)
Digits == <<"0", "1", "2", "3", "4", "5", "6", "7", "8", "9">>

IsDigit(ch) == \E d \in 1..10 : Digits[d] = ch

DigitVal(ch) == (CHOOSE d \in 1..10 : Digits[d] = ch) - 1

\* value of the longest run of decimal digits at the front of s, given the
\* value acc accumulated so far; the scan stops at the first non-digit
RECURSIVE ScanDigits(_, _)
ScanDigits(s, acc) ==
    IF Len(s) > 0 /\ IsDigit(SubSeq(s, 1, 1))
    THEN ScanDigits(SubSeq(s, 2, Len(s)), acc * 10 + DigitVal(SubSeq(s, 1, 1)))
    ELSE acc

\* var id int64; fmt.Sscan(s, &id): id stays 0 when no integer can be
\* scanned, the error is discarded; text after the digits is left unread
\* (signs, base prefixes and leading blanks do not occur in the ids used)
Sscan(s) == ScanDigits(s, 0)

RECURSIVE SprintNat(_)
SprintNat(n) ==
    IF n < 10 THEN Digits[n + 1]
    ELSE SprintNat(n \div 10) \o Digits[(n % 10) + 1]

Sprint(n) == IF n < 0 THEN "-" \o SprintNat(0 - n) ELSE SprintNat(n)

(***************************************************************************)
(* time.Duration                                                           *)
(***************************************************************************)
Second == 1000000000

\* int(d.Seconds()): float seconds truncated toward zero
DurationSeconds(d) == IF d >= 0 THEN d \div Second ELSE 0 - ((0 - d) \div Second)

(***************************************************************************)
(* Records                                                                 *)
(***************************************************************************)
\* libdns.Record
LibRecord(id, type, name, value, ttl, priority) ==
    [ID |-> id, Type |-> type, Name |-> name, Value |-> value,
     TTL |-> ttl, Priority |-> priority]

\* DNSRecord zero value
ZeroDNSRecord ==
    [ID |-> 0, Type |-> "", NodeName |-> "", Hostname |-> "", State |-> FALSE,
     Content |-> "", Ipv4Address |-> "", Ipv6Address |-> "", Host |-> "",
     TextData |-> "", TTL |-> 0, Priority |-> 0]

SupportedTypes == {"A", "AAAA", "CNAME", "MX", "NS", "PTR", "SPF", "TXT"}

(***************************************************************************)
(* dnsRecordToLibdnsRecord(dnsRecord, domain)                              *)
(***************************************************************************)
\* the record name: the hostname made relative to domain, "@" for the apex
\* (a bug kept for comparison: the name taken from nodeName, which is
\* relative to the owning domain, as before OwnDomain was introduced)
ReadName_FromNodeName(dnsRecord, domain) ==
    IF dnsRecord.NodeName = "" THEN "@" ELSE dnsRecord.NodeName

\* (a bug kept for comparison: the apex left as the empty string)
ReadName_NoApex(dnsRecord, domain) ==
    RelativeName(dnsRecord.Hostname, domain)

ReadName(dnsRecord, domain) ==
    LET fqdn == dnsRecord.Hostname
        relativeName == RelativeName(fqdn, domain)
    IN  IF relativeName = "" THEN "@" ELSE relativeName

\* (a bug kept for comparison: no fallback to content for unknown types)
dnsRecordToLibdnsRecord_NoFallback(dnsRecord, domain) ==
    LET libRecord == LibRecord(Sprint(dnsRecord.ID), dnsRecord.Type,
                               ReadName(dnsRecord, domain), "",
                               dnsRecord.TTL * Second, 0)
        t == dnsRecord.Type
    IN  CASE t = "A"     -> [libRecord EXCEPT !.Value = dnsRecord.Ipv4Address]
          [] t = "AAAA"  -> [libRecord EXCEPT !.Value = dnsRecord.Ipv6Address]
          [] t \in {"CNAME", "NS"} -> [libRecord EXCEPT !.Value = dnsRecord.Host]
          [] t = "MX"    -> [libRecord EXCEPT !.Value = dnsRecord.Host,
                                              !.Priority = dnsRecord.Priority]
          [] t = "PTR"   -> [libRecord EXCEPT !.Name = dnsRecord.Host,
                                              !.Value = dnsRecord.Hostname]
          [] t \in {"SPF", "TXT"} -> [libRecord EXCEPT !.Value = dnsRecord.TextData]
          [] OTHER       -> libRecord

dnsRecordToLibdnsRecord(dnsRecord, domain) ==
    LET relativeName == ReadName(dnsRecord, domain)
        libRecord == LibRecord(Sprint(dnsRecord.ID), dnsRecord.Type,
                               relativeName, "", dnsRecord.TTL * Second, 0)
        t == dnsRecord.Type
    IN  CASE t = "A"     -> [libRecord EXCEPT !.Value = dnsRecord.Ipv4Address]
          [] t = "AAAA"  -> [libRecord EXCEPT !.Value = dnsRecord.Ipv6Address]
          [] t = "CNAME" -> [libRecord EXCEPT !.Value = dnsRecord.Host]
          [] t = "MX"    -> [libRecord EXCEPT !.Value = dnsRecord.Host,
                                              !.Priority = dnsRecord.Priority]
          [] t = "NS"    -> [libRecord EXCEPT !.Value = dnsRecord.Host]
          [] t = "PTR"   -> [libRecord EXCEPT !.Name = dnsRecord.Host,
                                              !.Value = dnsRecord.Hostname]
          [] t = "SPF"   -> [libRecord EXCEPT !.Value = dnsRecord.TextData]
          [] t = "TXT"   -> [libRecord EXCEPT !.Value = dnsRecord.TextData]
          [] OTHER       -> [libRecord EXCEPT !.Value = dnsRecord.Content]

(***************************************************************************)
(* libdnsRecordToDnsRecord(record, domain, ownDomain)                      *)
(* returns [rec |-> DNSRecord, err |-> TRUE iff "record type not           *)
(* implemented"]                                                           *)
(***************************************************************************)
\* (a bug kept for comparison: the caller's name sent as it is)
WriteNodeName_NoRebase(record, domain, ownDomain) == record.Name

\* (a bug kept for comparison: the name rebased on the zone, not on the
\* owning domain)
WriteNodeName_OnZone(record, domain, ownDomain) ==
    LET nodeName == IF record.Name = "@" THEN "" ELSE record.Name
    IN  RelativeName(AbsoluteName(nodeName, domain), domain)

\* sub.owndomain -> sub.owndomain.domain.com -> sub
WriteNodeName(record, domain, ownDomain) ==
    LET nodeName == IF record.Name = "@" THEN "" ELSE record.Name
        fqdn == AbsoluteName(nodeName, domain)
    IN  RelativeName(fqdn, ownDomain)

\* (a bug kept for comparison: PTR written like CNAME, the value as host
\* and the rebased name as nodeName)
libdnsRecordToDnsRecord_PtrAsCname(record, domain, ownDomain) ==
    LET dnsRecord == [ZeroDNSRecord EXCEPT
                         !.ID = Sscan(record.ID), !.Type = record.Type,
                         !.NodeName = WriteNodeName(record, domain, ownDomain),
                         !.TTL = DurationSeconds(record.TTL),
                         !.State = TRUE]
        t == record.Type
    IN  CASE t = "A"     -> [rec |-> [dnsRecord EXCEPT !.Ipv4Address = record.Value],
                             err |-> FALSE]
          [] t = "AAAA"  -> [rec |-> [dnsRecord EXCEPT !.Ipv6Address = record.Value],
                             err |-> FALSE]
          [] t \in {"CNAME", "NS", "PTR"} ->
                            [rec |-> [dnsRecord EXCEPT !.Host = record.Value],
                             err |-> FALSE]
          [] t = "MX"    -> [rec |-> [dnsRecord EXCEPT !.Host = record.Value,
                                                       !.Priority = record.Priority],
                             err |-> FALSE]
          [] t \in {"SPF", "TXT"} ->
                            [rec |-> [dnsRecord EXCEPT !.TextData = record.Value],
                             err |-> FALSE]
          [] OTHER       -> [rec |-> dnsRecord, err |-> TRUE]

libdnsRecordToDnsRecord(record, domain, ownDomain) ==
    LET id == Sscan(record.ID)
        relativeName == WriteNodeName(record, domain, ownDomain)
        dnsRecord == [ZeroDNSRecord EXCEPT
                         !.ID = id, !.Type = record.Type,
                         !.NodeName = relativeName,
                         !.TTL = DurationSeconds(record.TTL),
                         !.State = TRUE]
        t == record.Type
    IN  CASE t = "A"     -> [rec |-> [dnsRecord EXCEPT !.Ipv4Address = record.Value],
                             err |-> FALSE]
          [] t = "AAAA"  -> [rec |-> [dnsRecord EXCEPT !.Ipv6Address = record.Value],
                             err |-> FALSE]
          [] t = "CNAME" -> [rec |-> [dnsRecord EXCEPT !.Host = record.Value],
                             err |-> FALSE]
          [] t = "MX"    -> [rec |-> [dnsRecord EXCEPT !.Host = record.Value,
                                                       !.Priority = record.Priority],
                             err |-> FALSE]
          [] t = "NS"    -> [rec |-> [dnsRecord EXCEPT !.Host = record.Value],
                             err |-> FALSE]
          [] t = "PTR"   -> [rec |-> [dnsRecord EXCEPT
                                         !.Host = record.Name,
                                         !.NodeName = RelativeName(record.Value, ownDomain)],
                             err |-> FALSE]
          [] t = "SPF"   -> [rec |-> [dnsRecord EXCEPT !.TextData = record.Value],
                             err |-> FALSE]
          [] t = "TXT"   -> [rec |-> [dnsRecord EXCEPT !.TextData = record.Value],
                             err |-> FALSE]
          [] OTHER       -> [rec |-> dnsRecord, err |-> TRUE]

(***************************************************************************)
(* The provider's side of a write: it stores the fields it was sent and    *)
(* answers with them, adding the record id and the hostname it derives     *)
(* from nodeName and its own domain name.                                  *)
(***************************************************************************)
ProviderHostname(nodeName, domainName) ==
    IF nodeName = "" THEN domainName
    ELSE IF domainName = "" THEN nodeName
    ELSE nodeName \o "." \o domainName

ProviderEcho(dnsRecord, domainName, id) ==
    [dnsRecord EXCEPT !.ID = id,
                      !.Hostname = ProviderHostname(dnsRecord.NodeName, domainName)]

(***************************************************************************)
(* Inputs                                                                  *)
(***************************************************************************)
NoRecord == [none |-> TRUE]

AllTypes == SupportedTypes \cup {"UNKNOWN"}

\* zone domains, and owning domains ("" = not configured)
TDomains == {"dynu.com", "my.dynu.com", "other.org"}
\* zones as callers supply them: with the trailing separator, without it
\* and with two
TZones == {d \o "." : d \in TDomains} \cup {"dynu.com", "dynu.com.."}
TOwnDomains == {"dynu.com", "my.dynu.com", "other.org", ""}

\* record names: apex, names below the zone, a reverse-lookup name, the
\* empty name and a name with a trailing separator
TNames == {"@", "abc", "abc.my", "my", "10.in-addr.arpa", "", "abc."}
TValues == {"1.2.3.4", "abc.my.dynu.com", "my.dynu.com", "www.example.com"}
TDurations == {0, Second, Second + (Second \div 2), 2 * Second}
TIds == {"", "123", "x", "12abc"}

TLibRecords ==
    {LibRecord(id, t, n, v, d, IF t = "MX" THEN 10 ELSE 0) :
        id \in TIds, t \in AllTypes, n \in TNames, v \in TValues, d \in TDurations}

\* records as the provider lists them: every value field carries its own text
THostnames == {"abc.my.dynu.com", "my.dynu.com", "dynu.com", "abc.other.org",
               "xdynu.com", ""}
TDnsRecords ==
    {[ZeroDNSRecord EXCEPT
         !.ID = id, !.Type = t, !.Hostname = h, !.State = TRUE,
         !.Content = "CONTENT", !.Ipv4Address = "1.2.3.4",
         !.Ipv6Address = "::1", !.Host = "www.example.com",
         !.TextData = "ABCD", !.TTL = ttl,
         !.Priority = IF t = "MX" THEN 10 ELSE 0] :
        id \in {0, 123}, t \in AllTypes, h \in THostnames, ttl \in {0, 2}}

(***************************************************************************)
(* Translator harness: write -> provider echo -> read, or read alone       *)
(***************************************************************************)
TWrite ==
    /\ tpc = "write"
    /\ tDomain' = zoneToFqdn(tZone)
    /\ tDns' = libdnsRecordToDnsRecord(tRec, tDomain', tOwn)
    /\ tpc' = IF tDns'.err THEN "done" ELSE "echo"
    /\ UNCHANGED <<tRec, tZone, tOwn, tEcho, tLib>>
    /\ UNCHANGED pvars

\* the provider answers the write with the same fields, its record id and
\* hostname = nodeName under the owning domain
TEcho ==
    /\ tpc = "echo"
    /\ \E id \in {123, 456} :
          tEcho' = ProviderEcho(tDns.rec, tOwn,
                                IF tDns.rec.ID # 0 THEN tDns.rec.ID ELSE id)
    /\ tpc' = "read"
    /\ UNCHANGED <<tRec, tZone, tDomain, tOwn, tDns, tLib>>
    /\ UNCHANGED pvars

TRead ==
    /\ tpc = "read"
    /\ tDomain' = zoneToFqdn(tZone)
    /\ tLib' = dnsRecordToLibdnsRecord(tEcho, tDomain')
    /\ tpc' = "done"
    /\ UNCHANGED <<tRec, tZone, tOwn, tDns, tEcho>>
    /\ UNCHANGED pvars

(***************************************************************************)
(* Facade and client: inputs                                               *)
(***************************************************************************)
NumCallers == 2
Callers == 1..NumCallers

\* work handed in over all callers: 2 for a call (its root lookup and its
\* return), 1 for each input record and 1 for a cancellation
MaxWork == 5

Ops == {"get", "append", "set", "delete"}
Zones == {"dynu.com."}
OwnDomains == {"my.dynu.com", ""}

InputRecords ==
    {LibRecord("", "A", "@", "1.2.3.4", 2 * Second, 0),
     LibRecord("123", "TXT", "abc.my", "ABCD", Second, 0),
     LibRecord("", "UNKNOWN", "abc", "x", 0, 0)}

RECURSIVE SeqsUpTo(_, _)
SeqsUpTo(S, n) ==
    IF n = 0 THEN {<<>>}
    ELSE LET shorter == SeqsUpTo(S, n - 1)
         IN  shorter \cup {Append(q, x) : q \in shorter, x \in S}

\* work handed in by the callers in S
RECURSIVE Work(_)
Work(S) ==
    IF S = {} THEN 0
    ELSE LET c == CHOOSE x \in S : TRUE
         IN  (IF pc[c] = "idle" THEN 0 ELSE 2 + Len(records[c]))
               + (IF ctxDone[c] THEN 1 ELSE 0) + Work(S \ {c})

\* what the provider may answer
DomainIds == {100}
AccountDomains == {"dynu.com"}
FreshIds == {456}
Nil == [nil |-> TRUE]

\* DNSHostname zero value
ZeroDNSHostname == [ID |-> 0, DomainName |-> ""]

\* DNSHostname for a root lookup of hostname
RootAnswers(hostname) ==
    {[ID |-> id, DomainName |-> d] :
        id \in DomainIds,
        d \in IF hostname = "" THEN AccountDomains ELSE {hostname}}

\* []DNSRecord the provider may list for a domain
ListAnswers(domainName) ==
    LET apex == [ZeroDNSRecord EXCEPT
                    !.ID = 1, !.Type = "A", !.Hostname = domainName,
                    !.State = TRUE, !.Ipv4Address = "1.2.3.4", !.TTL = 2]
        sub  == [ZeroDNSRecord EXCEPT
                    !.ID = 2, !.Type = "TXT", !.NodeName = "abc",
                    !.Hostname = ProviderHostname("abc", domainName),
                    !.State = TRUE, !.TextData = "ABCD", !.TTL = 1]
    IN  {<<>>, <<apex, sub>>}

(***************************************************************************)
(* Facade: the loop bodies of appendOrSetRecords and DeleteRecords         *)
(***************************************************************************)
\* errors.Join(errs...): nil when there is nothing to join
Join(es) == IF Len(es) = 0 THEN Nil ELSE [joined |-> es]

\* appendOrSetRecords, from record i on: every record that fails
\* libdnsRecordToDnsRecord appends its error and the loop continues; the
\* result is the index of the next record to upsert (Len + 1 when the loop
\* is over) and the errors collected on the way
\* (a bug kept for comparison: break instead of continue)
SkipUntranslatable_Break(recs, domain, ownDomain, i, es) ==
    IF i > Len(recs) THEN [idx |-> i, errs |-> es]
    ELSE IF libdnsRecordToDnsRecord(recs[i], domain, ownDomain).err
         THEN [idx |-> Len(recs) + 1,
               errs |-> Append(es, [idx |-> i, kind |-> "type"])]
         ELSE [idx |-> i, errs |-> es]

\* (a bug kept for comparison: the translation error is not looked at)
SkipUntranslatable_NoCheck(recs, domain, ownDomain, i, es) ==
    [idx |-> i, errs |-> es]

RECURSIVE SkipUntranslatable(_, _, _, _, _)
SkipUntranslatable(recs, domain, ownDomain, i, es) ==
    IF i > Len(recs) THEN [idx |-> i, errs |-> es]
    ELSE IF libdnsRecordToDnsRecord(recs[i], domain, ownDomain).err
         THEN SkipUntranslatable(recs, domain, ownDomain, i + 1,
                                 Append(es, [idx |-> i, kind |-> "type"]))
         ELSE [idx |-> i, errs |-> es]

\* where the loop of caller c stands once the untranslatable records from
\* record i on are skipped, s being the result of the skipping and os the
\* outputs so far: at the next client call, or at the return statement
LoopAt(c, s, os) ==
    IF s.idx > Len(records[c])
    THEN [pc |-> "done", cop |-> "none", idx |-> s.idx, out |-> os,
          errs |-> s.errs,
          ret |-> [recs |-> os, err |-> Join(s.errs)]]
    ELSE [pc |-> "lock",
          cop |-> IF op[c] = "delete" THEN "delete" ELSE "upsert",
          idx |-> s.idx, out |-> os, errs |-> s.errs, ret |-> Nil]

\* where the loop of caller c stands when it reaches record i with outputs
\* os and errors es (the one-element sets have s and o computed once)
LoopFrom(c, i, os, es) ==
    CHOOSE n \in {LoopAt(c, s, o) :
                    s \in {IF op[c] = "delete"
                           THEN [idx |-> i, errs |-> es]
                           ELSE SkipUntranslatable(records[c], zoneToFqdn(zone[c]),
                                                   OwnDomain, i, es)},
                    o \in {os}} : TRUE

\* (a bug kept for comparison: AddOrUpdateRecord does not look at
\* ignoreRecordId)
Request_IdAlwaysUsed(c) ==
    CASE cop[c] = "root" ->
            [kind |-> "root", hostname |-> OwnDomain]
      [] cop[c] = "list" ->
            [kind |-> "list", id |-> dnsHostName[c].ID]
      [] cop[c] = "upsert" ->
            LET dnsRecord == libdnsRecordToDnsRecord(records[c][idx[c]],
                                 zoneToFqdn(zone[c]), OwnDomain).rec
            IN  [kind |-> "upsert", idx |-> idx[c], id |-> dnsHostName[c].ID,
                 update |-> (dnsRecord.ID # 0),
                 record |-> dnsRecord]
      [] cop[c] = "delete" ->
            [kind |-> "delete", idx |-> idx[c], id |-> dnsHostName[c].ID,
             recordId |-> records[c][idx[c]].ID]

\* the request the client operation of caller c hands to the transport;
\* an upsert goes to the record's own endpoint (update) or to the
\* collection endpoint (create)
Request(c) ==
    CASE cop[c] = "root" ->
            [kind |-> "root", hostname |-> OwnDomain]
      [] cop[c] = "list" ->
            [kind |-> "list", id |-> dnsHostName[c].ID]
      [] cop[c] = "upsert" ->
            LET dnsRecord == libdnsRecordToDnsRecord(records[c][idx[c]],
                                 zoneToFqdn(zone[c]), OwnDomain).rec
                ignoreRecordId == (op[c] = "append")
            IN  [kind |-> "upsert", idx |-> idx[c], id |-> dnsHostName[c].ID,
                 update |-> (dnsRecord.ID # 0 /\ ~ignoreRecordId),
                 record |-> dnsRecord]
      [] cop[c] = "delete" ->
            [kind |-> "delete", idx |-> idx[c], id |-> dnsHostName[c].ID,
             recordId |-> records[c][idx[c]].ID]

(***************************************************************************)
(* Facade: what each operation does with the result of a client call       *)
(***************************************************************************)
Ok(v) == [ok |-> TRUE, val |-> v]
Err(k) == [ok |-> FALSE, val |-> k]

Returned(c, rs, e) ==
    [pc |-> "done", cop |-> "none", idx |-> idx[c], out |-> out[c],
     errs |-> errs[c], ret |-> [recs |-> rs, err |-> e]]

\* A client operation has two error returns: the error of
\* doWithCustomError as it is (request, transport, decode), or "API error"
\* wrapping the provider's exception.  A per-record error wraps the client's
\* error in the record's own message; of it the model keeps which record
\* failed and that the client call failed.
ErrorKept(c, res) ==
    IF res.ok THEN "none"
    ELSE IF cop[c] \in {"upsert", "delete"} THEN "client"
    ELSE IF res.val = "api" THEN "api" ELSE "do"

\* (a bug kept for comparison: err of GetRootDomain is not looked at)
AfterGetRootDomain_IgnoreError(c, res) ==
    IF op[c] = "get"
    THEN [pc |-> "lock", cop |-> "list", idx |-> idx[c], out |-> out[c],
          errs |-> errs[c], ret |-> Nil]
    ELSE LoopFrom(c, 1, <<>>, <<>>)

\* dnsHostName, err := p.Client.GetRootDomain(ctx, p.OwnDomain)
AfterGetRootDomain(c, res) ==
    IF ~res.ok THEN Returned(c, <<>>, [kind |-> ErrorKept(c, res)])
    ELSE IF op[c] = "get"
         THEN [pc |-> "lock", cop |-> "list", idx |-> idx[c], out |-> out[c],
               errs |-> errs[c], ret |-> Nil]
         ELSE LoopFrom(c, 1, <<>>, <<>>)

\* dnsRecords, err := p.Client.GetRecords(ctx, dnsHostName.ID)
AfterGetRecords(c, res) ==
    IF ~res.ok THEN Returned(c, <<>>, [kind |-> ErrorKept(c, res)])
    ELSE LET libRecords ==
                 [i \in 1..Len(res.val) |->
                     [idx |-> i,
                      rec |-> dnsRecordToLibdnsRecord(res.val[i],
                                                      zoneToFqdn(zone[c]))]]
         IN  [pc |-> "done", cop |-> "none", idx |-> idx[c],
              out |-> libRecords, errs |-> errs[c],
              ret |-> [recs |-> libRecords, err |-> Nil]]

\* (a bug kept for comparison: a failed upsert is tried a second time)
AfterAddOrUpdateRecord_Retry(c, res) ==
    IF ~res.ok
    THEN IF \E k \in 1..Len(returned[c]) :
                returned[c][k].cop = "upsert" /\ returned[c][k].idx = idx[c]
         THEN LoopFrom(c, idx[c] + 1, out[c],
                       Append(errs[c], [idx |-> idx[c], kind |-> ErrorKept(c, res)]))
         ELSE LoopFrom(c, idx[c], out[c], errs[c])
    ELSE LoopFrom(c, idx[c] + 1,
                  Append(out[c],
                         [idx |-> idx[c],
                          rec |-> dnsRecordToLibdnsRecord(res.val,
                                                          zoneToFqdn(zone[c]))]),
                  errs[c])

\* updateResponse, err := p.Client.AddOrUpdateRecord(...)
AfterAddOrUpdateRecord(c, res) ==
    IF ~res.ok
    THEN LoopFrom(c, idx[c] + 1, out[c],
                  Append(errs[c], [idx |-> idx[c], kind |-> ErrorKept(c, res)]))
    ELSE LoopFrom(c, idx[c] + 1,
                  Append(out[c],
                         [idx |-> idx[c],
                          rec |-> dnsRecordToLibdnsRecord(res.val,
                                                          zoneToFqdn(zone[c]))]),
                  errs[c])

\* err := p.Client.DeleteRecord(ctx, dnsHostName.ID, rec.ID)
AfterDeleteRecord(c, res) ==
    IF ~res.ok
    THEN LoopFrom(c, idx[c] + 1, out[c],
                  Append(errs[c], [idx |-> idx[c], kind |-> ErrorKept(c, res)]))
    ELSE LoopFrom(c, idx[c] + 1,
                  Append(out[c], [idx |-> idx[c], rec |-> records[c][idx[c]]]),
                  errs[c])

AfterClientCall(c, res) ==
    CASE cop[c] = "root"   -> AfterGetRootDomain(c, res)
      [] cop[c] = "list"   -> AfterGetRecords(c, res)
      [] cop[c] = "upsert" -> AfterAddOrUpdateRecord(c, res)
      [] cop[c] = "delete" -> AfterDeleteRecord(c, res)

\* the client call of caller c returns res and the facade runs on to its
\* next client call or to its return
Resume(c, res) ==
    \E n \in {AfterClientCall(c, res)} :
        /\ pc' = [pc EXCEPT ![c] = n.pc]
        /\ cop' = [cop EXCEPT ![c] = n.cop]
        /\ idx' = [idx EXCEPT ![c] = n.idx]
        /\ out' = [out EXCEPT ![c] = n.out]
        /\ errs' = [errs EXCEPT ![c] = n.errs]
        /\ ret' = [ret EXCEPT ![c] = n.ret]
        /\ dnsHostName' = IF cop[c] = "root" /\ res.ok
                          THEN [dnsHostName EXCEPT ![c] = res.val]
                          ELSE dnsHostName
        /\ returned' = [returned EXCEPT ![c] =
                           Append(@, [cop |-> cop[c], idx |-> idx[c],
                                      ok |-> res.ok,
                                      kind |-> ErrorKept(c, res)])]

(***************************************************************************)
(* What the transport may deliver for the request of caller c              *)
(***************************************************************************)
RemoteErrors == {"transport", "decode", "api"}

OkAnswers(c) ==
    CASE cop[c] = "root"   -> {Ok(a) : a \in RootAnswers(OwnDomain)}
      [] cop[c] = "list"   -> {Ok(l) : l \in ListAnswers(dnsHostName[c].DomainName)}
      [] cop[c] = "upsert" ->
            LET r == reqs[c][Len(reqs[c])]
            IN  {Ok(ProviderEcho(r.record, dnsHostName[c].DomainName,
                                 IF r.update THEN r.record.ID ELSE id)) :
                    id \in FreshIds}
      [] cop[c] = "delete" -> {Ok(Nil)}

(***************************************************************************)
(* Actions                                                                 *)
(***************************************************************************)
\* a goroutine calls GetRecords / AppendRecords / SetRecords / DeleteRecords;
\* p.Once.Do(Init) creates the client on the first call
Call(c) ==
    /\ pc[c] = "idle"
    /\ Work(Callers \ {c}) + 2 <= MaxWork
    /\ \E o \in Ops, z \in Zones :
       \E recs \in IF o = "get" THEN {<<>>}
                   ELSE SeqsUpTo(InputRecords,
                                 MaxWork - 2 - Work(Callers \ {c})) :
          /\ op' = [op EXCEPT ![c] = o]
          /\ zone' = [zone EXCEPT ![c] = z]
          /\ records' = [records EXCEPT ![c] = recs]
    /\ clientInit' = TRUE
    /\ pc' = [pc EXCEPT ![c] = "lock"]
    /\ cop' = [cop EXCEPT ![c] = "root"]
    /\ UNCHANGED <<OwnDomain, ctxDone, mutex, inFlight, idx, dnsHostName, out,
                   errs, ret, reqs, returned>>
    /\ UNCHANGED tvars

\* (a bug kept for comparison: a client operation that takes no lock)
MutexFree_NoLock == TRUE

\* c.mutex.Lock() at the head of every client operation blocks while the
\* mutex is held
MutexFree == mutex = {}

\* the caller's side cancels the ctx of a call that is under way
Cancel(c) ==
    /\ pc[c] \in {"lock", "wait"}
    /\ ~ctxDone[c]
    /\ Work(Callers) + 1 <= MaxWork
    /\ ctxDone' = [ctxDone EXCEPT ![c] = TRUE]
    /\ UNCHANGED <<OwnDomain, clientInit, mutex, inFlight, pc, cop, op, zone,
                   records, idx, dnsHostName, out, errs, ret, reqs, returned>>
    /\ UNCHANGED tvars

\* (a bug kept for comparison: a transport that does not look at the ctx
\* before it sends)
RoundTripRefused_Never(c) == FALSE

\* c.HTTPClient.Do(req) with req built by NewRequestWithContext(ctx, ...):
\* the transport returns ctx.Err() before anything is sent when ctx is
\* already done
RoundTripRefused(c) == ctxDone[c]

\* a client operation takes the mutex, doWithCustomError builds the request
\* and c.HTTPClient.Do(req) starts
Do(c) ==
    /\ pc[c] = "lock"
    /\ MutexFree
    /\ ~RoundTripRefused(c)
    /\ mutex' = mutex \cup {c}
    /\ inFlight' = inFlight \cup {c}
    /\ reqs' = [reqs EXCEPT ![c] = Append(@, Request(c))]
    /\ pc' = [pc EXCEPT ![c] = "wait"]
    /\ UNCHANGED <<OwnDomain, clientInit, ctxDone, cop, op, zone, records,
                   idx, dnsHostName, out, errs, ret, returned>>
    /\ UNCHANGED tvars

\* a client operation takes the mutex and builds the request under a ctx
\* that is done: Do returns the ctx error, nothing is sent, and the deferred
\* Unlock runs as the operation returns that error
DoCancelled(c) ==
    /\ pc[c] = "lock"
    /\ MutexFree
    /\ RoundTripRefused(c)
    /\ mutex' = mutex \ {c}
    /\ Resume(c, Err("context"))
    /\ UNCHANGED <<OwnDomain, clientInit, ctxDone, inFlight, op, zone, records,
                   reqs>>
    /\ UNCHANGED tvars

\* a client operation takes the mutex, http.NewRequestWithContext fails and
\* nothing is sent; the deferred Unlock runs as the operation returns the
\* error
RequestError(c) ==
    /\ pc[c] = "lock"
    /\ MutexFree
    /\ mutex' = mutex \ {c}
    /\ Resume(c, Err("request"))
    /\ UNCHANGED <<OwnDomain, clientInit, ctxDone, inFlight, op, zone, records,
                   reqs>>
    /\ UNCHANGED tvars

\* (a bug kept for comparison: Unlock only on the successful return, as
\* without defer)
Respond_NoUnlockOnError(c) ==
    /\ pc[c] = "wait"
    /\ \E res \in OkAnswers(c) \cup {Err(k) : k \in RemoteErrors} :
          /\ Resume(c, res)
          /\ mutex' = IF res.ok THEN mutex \ {c} ELSE mutex
    /\ inFlight' = inFlight \ {c}
    /\ UNCHANGED <<OwnDomain, clientInit, ctxDone, op, zone, records, reqs>>
    /\ UNCHANGED tvars

\* Do returns (transport error, undecodable body, statusCode # 200, or the
\* decoded answer); the deferred Unlock runs as the client operation returns
Respond(c) ==
    /\ pc[c] = "wait"
    /\ \E res \in OkAnswers(c) \cup {Err(k) : k \in RemoteErrors} :
          Resume(c, res)
    /\ inFlight' = inFlight \ {c}
    /\ mutex' = mutex \ {c}
    /\ UNCHANGED <<OwnDomain, clientInit, ctxDone, op, zone, records, reqs>>
    /\ UNCHANGED tvars

(***************************************************************************)
(* Specifications                                                          *)
(***************************************************************************)
ProviderIdle ==
    /\ clientInit = FALSE
    /\ ctxDone = [c \in Callers |-> FALSE]
    /\ mutex = {}
    /\ inFlight = {}
    /\ pc = [c \in Callers |-> "idle"]
    /\ cop = [c \in Callers |-> "none"]
    /\ op = [c \in Callers |-> "none"]
    /\ zone = [c \in Callers |-> ""]
    /\ records = [c \in Callers |-> <<>>]
    /\ idx = [c \in Callers |-> 0]
    /\ dnsHostName = [c \in Callers |-> ZeroDNSHostname]
    /\ out = [c \in Callers |-> <<>>]
    /\ errs = [c \in Callers |-> <<>>]
    /\ ret = [c \in Callers |-> Nil]
    /\ reqs = [c \in Callers |-> <<>>]
    /\ returned = [c \in Callers |-> <<>>]

TranslatorOff ==
    /\ tpc = "off"
    /\ tRec = NoRecord
    /\ tZone = ""
    /\ tDomain = ""
    /\ tOwn = ""
    /\ tDns = NoRecord
    /\ tEcho = NoRecord
    /\ tLib = NoRecord

Init ==
    /\ OwnDomain \in OwnDomains
    /\ ProviderIdle
    /\ TranslatorOff

Next ==
    \E c \in Callers :
        \/ Call(c)
        \/ Cancel(c)
        \/ Do(c)
        \/ DoCancelled(c)
        \/ RequestError(c)
        \/ Respond(c)

Spec == Init /\ [][Next]_vars

\* a client operation takes the free mutex, or the transport returns
Progress == \E c \in Callers : Do(c) \/ DoCancelled(c) \/ Respond(c)

\* a Provider configured with its own domain
LiveInit ==
    /\ OwnDomain = "my.dynu.com"
    /\ ProviderIdle
    /\ TranslatorOff

\* the facade and client under the scheduling the program runs with: the
\* transport returns (HTTPClient has a 30 s timeout), and while the mutex is
\* free one of the goroutines blocked in Lock gets it
LiveSpec == LiveInit /\ [][Next]_vars /\ WF_vars(Progress)

\* the translators alone: either a libdns.Record to write, or a provider
\* record to read
TInit ==
    /\ OwnDomain = ""
    /\ ProviderIdle
    /\ tZone \in TZones
    /\ tDomain = ""
    /\ tDns = NoRecord
    /\ tLib = NoRecord
    /\ \/ /\ tpc = "write"
          /\ tRec \in TLibRecords
          /\ tOwn \in TOwnDomains
          /\ tEcho = NoRecord
       \/ /\ tpc = "read"
          /\ tRec = NoRecord
          /\ tOwn = ""
          /\ tEcho \in TDnsRecords

TNext == TWrite \/ TEcho \/ TRead

TSpec == TInit /\ [][TNext]_vars

(***************************************************************************)
(* Vocabulary of the properties                                            *)
(***************************************************************************)
\* a domain name in text form: non-empty labels separated by single dots
IsName(s) ==
    /\ Len(s) > 0
    /\ \A i \in 1..Len(s) :
          SubSeq(s, i, i) = "." =>
              /\ i > 1
              /\ i < Len(s)
              /\ SubSeq(s, i + 1, i + 1) # "."

\* fqdn is the domain d or lies below it
Under(fqdn, d) == fqdn = d \/ HasSuffix(fqdn, "." \o d)

\* a record as the libdns caller hands it in: "@" or a name, whole seconds
IsNormalized(r) ==
    /\ r.Name = "@" \/ IsName(r.Name)
    /\ r.TTL >= 0
    /\ r.TTL % Second = 0

TWrote == tDns # NoRecord
TReadBack == tpc = "done" /\ tLib # NoRecord

(***************************************************************************)
(* C1  Round trip                                                          *)
(***************************************************************************)
C1_RoundTripHolds ==
    /\ tLib.Name = tRec.Name
    /\ tLib.Type = tRec.Type
    /\ tLib.Value = tRec.Value
    /\ tLib.TTL = tRec.TTL

\* C1 as claimed: for every supported type, every zone domain, every
\* (configured) owning domain and every normalized record, write ->
\* provider echo -> read gives back name, type, value and ttl.
C1_RoundTrip_AsClaimed ==
    (TReadBack /\ TWrote /\ tRec.Type \in SupportedTypes /\ IsNormalized(tRec)
       /\ IsName(tOwn))
        => C1_RoundTripHolds

C1_Representable ==
    IF tRec.Type = "PTR"
    THEN Under(tRec.Value, tOwn)
    ELSE Under(AbsoluteName(tRec.Name, tDomain), tOwn)

\* C1 amended: the round trip write -> provider echo -> read gives back
\* name, type, value and ttl of every normalized record of a supported type
\* whose absolute name (for PTR: whose value) is the owning domain or lies
\* below it.
C1_RoundTrip ==
    (TReadBack /\ TWrote /\ tRec.Type \in SupportedTypes /\ IsNormalized(tRec)
       /\ IsName(tOwn) /\ C1_Representable)
        => C1_RoundTripHolds

C1_Witness ==
    /\ TReadBack /\ TWrote
    /\ tRec.Type = "A" /\ tRec.Name = "abc.my" /\ tRec.TTL = 2 * Second
    /\ tDomain = "dynu.com" /\ tOwn = "my.dynu.com"
    /\ tEcho.NodeName = "abc" /\ tEcho.Hostname = "abc.my.dynu.com"
    /\ tLib.Name = "abc.my"

(***************************************************************************)
(* C5  The read direction is total                                         *)
(***************************************************************************)
C5_SelectedField(d) ==
    IF d.Type = "A" THEN d.Ipv4Address
    ELSE IF d.Type = "AAAA" THEN d.Ipv6Address
    ELSE IF d.Type \in {"CNAME", "NS", "MX"} THEN d.Host
    ELSE IF d.Type \in {"TXT", "SPF"} THEN d.TextData
    ELSE IF d.Type = "PTR" THEN d.Hostname
    ELSE d.Content

\* C5: whatever the type tag of a provider record, reading it yields a
\* record carrying its id (in decimal), its type, its ttl in seconds and the
\* value of the field its type selects, content for an unknown tag.
C5_ReadTotal ==
    TReadBack =>
        /\ tLib.ID = Sprint(tEcho.ID)
        /\ Sscan(tLib.ID) = tEcho.ID
        /\ tLib.Type = tEcho.Type
        /\ tLib.TTL = tEcho.TTL * Second
        /\ tLib.Value = C5_SelectedField(tEcho)

C5_Witness ==
    /\ TReadBack /\ ~TWrote
    /\ tEcho.Type = "UNKNOWN" /\ tEcho.ID = 123 /\ tEcho.TTL = 2
    /\ tLib.Value = "CONTENT" /\ tLib.ID = "123" /\ tLib.TTL = 2 * Second

(***************************************************************************)
(* C6  Apex on write                                                       *)
(***************************************************************************)
\* C6 as claimed: for every zone domain and every (configured) owning
\* domain, a non-PTR record named "@" is written with an empty nodeName.
C6_ApexWrite_AsClaimed ==
    (TWrote /\ tRec.Type # "PTR" /\ tRec.Name = "@" /\ IsName(tOwn))
        => tDns.rec.NodeName = ""

\* C6 amended: when the owning domain equals the zone domain, a non-PTR
\* record named "@" is written with an empty nodeName.
C6_ApexWrite ==
    (TWrote /\ tRec.Type # "PTR" /\ tRec.Name = "@" /\ tOwn = tDomain)
        => tDns.rec.NodeName = ""

C6_Witness ==
    /\ TWrote /\ tRec.Type = "A" /\ tRec.Name = "@"
    /\ tDomain = "dynu.com" /\ tOwn = "dynu.com"
    /\ tDns.rec.NodeName = ""

(***************************************************************************)
(* C7  Names on read are relative to the zone                              *)
(***************************************************************************)
C7_RelativeToZone ==
    /\ tLib.Name # ""
    /\ tEcho.Hostname = tDomain => tLib.Name = "@"
    /\ tEcho.Hostname # tDomain => AbsoluteName(tLib.Name, tDomain) = tEcho.Hostname

\* C7 as claimed: the name of every non-PTR record read is "@" when the
\* hostname is the zone domain and otherwise resolves, against the zone
\* domain, to the hostname, whatever domain the hostname belongs to.
C7_ReadName_AsClaimed ==
    (TReadBack /\ tEcho.Type # "PTR" /\ IsName(tEcho.Hostname))
        => C7_RelativeToZone

\* C7 amended: the name of every non-PTR record read whose hostname is the
\* zone domain or lies below it is "@" (never empty) when the hostname is
\* the zone domain, and otherwise resolves, against the zone domain, to the
\* hostname.
C7_ReadName ==
    (TReadBack /\ tEcho.Type # "PTR" /\ IsName(tEcho.Hostname)
       /\ Under(tEcho.Hostname, tDomain))
        => C7_RelativeToZone

C7_Witness ==
    /\ TReadBack /\ ~TWrote /\ tEcho.Type = "TXT"
    /\ tDomain = "dynu.com" /\ tEcho.Hostname = "dynu.com"
    /\ tLib.Name = "@"

(***************************************************************************)
(* C8  Owning-domain rebasing on write                                     *)
(***************************************************************************)
C8_SameAbsoluteName ==
    AbsoluteName(tDns.rec.NodeName, tOwn) = AbsoluteName(tRec.Name, tDomain)

\* C8 as claimed: for every non-PTR record, nodeName resolved against the
\* (configured) owning domain is the record name resolved against the zone
\* domain.
C8_Rebase_AsClaimed ==
    (TWrote /\ tRec.Type # "PTR" /\ IsNormalized(tRec) /\ IsName(tOwn))
        => C8_SameAbsoluteName

\* C8 amended: for every non-PTR record whose name, resolved against the
\* zone domain, is the owning domain or lies below it, nodeName resolved
\* against the owning domain is that same absolute name; it is empty exactly
\* when that name is the owning domain itself.
C8_Rebase ==
    (TWrote /\ tRec.Type # "PTR" /\ IsNormalized(tRec) /\ IsName(tOwn)
       /\ Under(AbsoluteName(tRec.Name, tDomain), tOwn))
        => /\ C8_SameAbsoluteName
           /\ tDns.rec.NodeName = "" <=> AbsoluteName(tRec.Name, tDomain) = tOwn

C8_Witness ==
    /\ TWrote /\ tRec.Type = "A" /\ tRec.Name = "abc.my"
    /\ tDomain = "dynu.com" /\ tOwn = "my.dynu.com"
    /\ tDns.rec.NodeName = "abc"

(***************************************************************************)
(* Vocabulary of the facade properties                                     *)
(***************************************************************************)
Batch == {"append", "set", "delete"}

RootReturned(c) == Len(returned[c]) > 0 /\ returned[c][1].cop = "root"
RootOk(c) == RootReturned(c) /\ returned[c][1].ok
RootFailed(c) == RootReturned(c) /\ ~returned[c][1].ok

\* what happened to input record i of caller c, as the client calls went
RemoteOk(c, i) ==
    \E k \in 1..Len(returned[c]) :
        /\ returned[c][k].cop \in {"upsert", "delete"}
        /\ returned[c][k].idx = i
        /\ returned[c][k].ok
RemoteFailed(c, i) ==
    \E k \in 1..Len(returned[c]) :
        /\ returned[c][k].cop \in {"upsert", "delete"}
        /\ returned[c][k].idx = i
        /\ ~returned[c][k].ok
Unsupported(c, i) == records[c][i].Type \notin SupportedTypes
Untranslatable(c, i) == op[c] \in {"append", "set"} /\ Unsupported(c, i)

IdxOf(q) == [k \in 1..Len(q) |-> q[k].idx]
Increasing(q) == \A j, k \in 1..Len(q) : j < k => q[j] < q[k]
Range(q) == {q[k] : k \in 1..Len(q)}

(***************************************************************************)
(* C2  Batch operations: the subset that succeeded plus one error per      *)
(*     failed record                                                       *)
(***************************************************************************)
\* C2: when an append, set or delete has resolved the root and returns, the
\* records returned are exactly those whose remote call succeeded, in input
\* order, the errors are exactly one per record that failed translation or
\* its remote call, in input order, together they account for every input
\* record, and the combined error is nil exactly when no record failed.
C2_BatchOutcome ==
    \A c \in Callers :
        (pc[c] = "done" /\ op[c] \in Batch /\ RootOk(c)) =>
            LET inputs == 1..Len(records[c])
                succeeded == {i \in inputs : RemoteOk(c, i)}
                failed == {i \in inputs : Untranslatable(c, i) \/ RemoteFailed(c, i)}
            IN  /\ ret[c].recs = out[c]
                /\ Increasing(IdxOf(out[c]))
                /\ Range(IdxOf(out[c])) = succeeded
                /\ Increasing(IdxOf(errs[c]))
                /\ Range(IdxOf(errs[c])) = failed
                /\ Len(out[c]) + Len(errs[c]) = Len(records[c])
                /\ ret[c].err = Nil <=> failed = {}
                /\ ret[c].err # Nil => ret[c].err = [joined |-> errs[c]]
                /\ op[c] = "delete" =>
                      \A k \in 1..Len(out[c]) :
                          out[c][k].rec = records[c][out[c][k].idx]

\* three records, the second of an unsupported type: two results and one
\* error, for the second record
C2_Witness ==
    \E c \in Callers :
        /\ pc[c] = "done" /\ op[c] = "append" /\ RootOk(c)
        /\ Len(records[c]) = 3
        /\ Unsupported(c, 2)
        /\ IdxOf(out[c]) = <<1, 3>>
        /\ IdxOf(errs[c]) = <<2>>
        /\ ret[c].err = [joined |-> errs[c]]

(***************************************************************************)
(* C3  Root resolution failure is fatal for the whole call                 *)
(***************************************************************************)
\* C3: once GetRootDomain has failed, the call has returned that error and
\* no records, and it has issued no list, upsert or delete request.
C3_RootFailureFatal ==
    \A c \in Callers :
        RootFailed(c) =>
            /\ pc[c] = "done"
            /\ ret[c].recs = <<>>
            /\ ret[c].err = [kind |-> returned[c][1].kind]
            /\ Len(returned[c]) = 1
            /\ \A k \in 1..Len(reqs[c]) : reqs[c][k].kind = "root"

C3_Witness ==
    \E c \in Callers :
        /\ RootFailed(c) /\ op[c] = "set" /\ Len(records[c]) = 2
        /\ pc[c] = "done" /\ ret[c].err = [kind |-> "api"]
        /\ Len(reqs[c]) = 1

(***************************************************************************)
(* C4  Unsupported type on write                                           *)
(***************************************************************************)
\* C4: libdnsRecordToDnsRecord fails for every record whose type is outside
\* the supported set; append and set never send an upsert for such a record,
\* collect its error, and still process every other record.
C4_UnsupportedOnWrite ==
    \A c \in Callers :
        op[c] \in {"append", "set"} =>
            /\ \A i \in 1..Len(records[c]) :
                  Unsupported(c, i) <=>
                      libdnsRecordToDnsRecord(records[c][i], zoneToFqdn(zone[c]),
                                              OwnDomain).err
            /\ \A k \in 1..Len(reqs[c]) :
                  reqs[c][k].kind = "upsert" => ~Unsupported(c, reqs[c][k].idx)
            /\ (pc[c] = "done" /\ RootOk(c)) =>
                  \A i \in 1..Len(records[c]) :
                      IF Unsupported(c, i)
                      THEN [idx |-> i, kind |-> "type"] \in Range(errs[c])
                      ELSE RemoteOk(c, i) \/ RemoteFailed(c, i)

C4_Witness ==
    \E c \in Callers :
        /\ pc[c] = "done" /\ op[c] = "set" /\ RootOk(c)
        /\ Len(records[c]) = 2 /\ Unsupported(c, 1) /\ ~Unsupported(c, 2)
        /\ errs[c] = <<[idx |-> 1, kind |-> "type"]>>
        /\ RemoteOk(c, 2)
        /\ Len(reqs[c]) = 2 /\ reqs[c][2].kind = "upsert" /\ reqs[c][2].idx = 2

(***************************************************************************)
(* C9  Owning domain not configured                                        *)
(***************************************************************************)
\* C9: with no owning domain configured, the root is resolved for the zone
\* domain and nodeName is computed relative to the zone domain.
C9_OwnDefaultsToZone ==
    \A c \in Callers :
        OwnDomain = "" =>
            \A k \in 1..Len(reqs[c]) :
                LET r == reqs[c][k]
                    domain == zoneToFqdn(zone[c])
                IN  /\ r.kind = "root" => r.hostname = domain
                    /\ r.kind = "upsert" =>
                          r.record.NodeName =
                              libdnsRecordToDnsRecord(records[c][r.idx], domain,
                                                      domain).rec.NodeName

(***************************************************************************)
(* C10  Mutual exclusion of the client's requests                          *)
(***************************************************************************)
\* C10: at most one request of the client is in flight at any time, and it
\* belongs to the one caller holding the mutex; the others wait.
C10_MutualExclusion ==
    /\ Cardinality(inFlight) <= 1
    /\ Cardinality(mutex) <= 1
    /\ inFlight \subseteq mutex
    /\ \A c \in Callers : c \in mutex <=> pc[c] = "wait"

C10_Witness ==
    \E c1, c2 \in Callers :
        /\ c1 # c2
        /\ inFlight = {c1}
        /\ pc[c2] = "lock" /\ cop[c2] = "upsert"

(***************************************************************************)
(* C11  Cancellation in the middle of a batch                              *)
(***************************************************************************)
IsPrefix(p, q) == Len(p) <= Len(q) /\ SubSeq(q, 1, Len(p)) = p

C13_PtrInversion ==
    /\ (TWrote /\ tRec.Type = "PTR") =>
          /\ tDns.rec.Host = tRec.Name
          /\ (IsName(tOwn) /\ Under(tRec.Value, tOwn)) =>
                 AbsoluteName(tDns.rec.NodeName, tOwn) = tRec.Value
          /\ tRec.Value = tOwn => tDns.rec.NodeName = ""
          /\ ~HasSuffix(tRec.Value, tOwn) => tDns.rec.NodeName = tRec.Value
    /\ (TReadBack /\ tEcho.Type = "PTR") =>
          /\ tLib.Name = tEcho.Host
          /\ tLib.Value = tEcho.Hostname
          /\ TWrote => tLib.Name = tRec.Name

C13_Witness ==
    /\ TReadBack /\ TWrote /\ tRec.Type = "PTR"
    /\ tRec.Name = "10.in-addr.arpa" /\ tRec.Value = "abc.my.dynu.com"
    /\ tDomain = "dynu.com" /\ tOwn = "my.dynu.com"
    /\ tDns.rec.Host = "10.in-addr.arpa" /\ tDns.rec.NodeName = "abc"
    /\ tLib.Name = "10.in-addr.arpa" /\ tLib.Value = "abc.my.dynu.com"

(***************************************************************************)
(* C12  Endpoint of an upsert                                              *)
(***************************************************************************)
\* C12: an upsert request goes to the record's own endpoint exactly when the
\* provider record id is not 0 and the call is a set; an append always goes
\* to the collection endpoint, also for a record that carries an id; the
\* record a set returns for an update has the id of the record it updated,
\* the record returned for a create has an id the provider chose.
C12_UpsertEndpoint ==
    \A c \in Callers :
        \A k \in 1..Len(reqs[c]) :
            LET r == reqs[c][k]
            IN  r.kind = "upsert" =>
                  /\ r.update <=> (r.record.ID # 0 /\ op[c] = "set")
                  /\ op[c] = "append" => ~r.update
                  /\ (op[c] = "set" /\ records[c][r.idx].ID = "123") =>
                        r.update /\ r.record.ID = 123
                  /\ \A j \in 1..Len(out[c]) :
                        out[c][j].idx = r.idx =>
                            IF r.update
                            THEN out[c][j].rec.ID = records[c][r.idx].ID
                            ELSE Sscan(out[c][j].rec.ID) \in FreshIds

\* a set that updated record 123 and returned it under the same id
C12_Witness ==
    \E c \in Callers :
        /\ op[c] = "set" /\ pc[c] = "done"
        /\ Len(records[c]) = 1 /\ records[c][1].ID = "123"
        /\ Len(reqs[c]) = 2 /\ reqs[c][2].kind = "upsert" /\ reqs[c][2].update
        /\ Len(out[c]) = 1 /\ out[c][1].rec.ID = "123"

(***************************************************************************)
(* C14  Order of the requests, no retries                                  *)
(***************************************************************************)
\* the client operations caller c has called so far: those that returned and
\* the one under way
ClientCalls(c) ==
    [k \in 1..Len(returned[c]) |-> [cop |-> returned[c][k].cop,
                                     idx |-> returned[c][k].idx]]
      \o (IF pc[c] \in {"lock", "wait"}
          THEN <<[cop |-> cop[c], idx |-> idx[c]]>> ELSE <<>>)

PerRecord(q) == {k \in 1..Len(q) : q[k].cop \in {"upsert", "delete"}}
SentPerRecord(q) == {k \in 1..Len(q) : q[k].kind \in {"upsert", "delete"}}

\* C14: every call resolves the root exactly once, as its first client
\* operation, and sends at most one request for it; a list, upsert or delete
\* request is sent only after the root resolution has returned
\* successfully; a get sends at most one list request; an append, set or
\* delete calls the client at most once per input record, in input order,
\* each such call sends at most one request, and no record is tried again,
\* whether its request failed or not.
C14_RequestOrder ==
    \A c \in Callers :
        pc[c] # "idle" =>
            LET calls == ClientCalls(c)
                sent == reqs[c]
            IN  /\ Len(calls) >= 1
                /\ \A k \in 1..Len(calls) : calls[k].cop = "root" <=> k = 1
                /\ \A k \in 1..Len(sent) : sent[k].kind = "root" <=> k = 1
                /\ Len(sent) > 1 => RootOk(c)
                /\ Len(sent) <= Len(calls)
                /\ \A k \in 1..Len(calls) :
                      calls[k].cop = "list" => op[c] = "get" /\ k = 2
                /\ Cardinality({k \in 1..Len(sent) : sent[k].kind = "list"}) <= 1
                /\ \A j, k \in PerRecord(calls) :
                      j < k => calls[j].idx < calls[k].idx
                /\ \A j, k \in SentPerRecord(sent) :
                      j < k => sent[j].idx < sent[k].idx
                /\ \A k \in PerRecord(calls) :
                      op[c] \in Batch /\ calls[k].idx \in 1..Len(records[c])
                /\ Len(sent) <= 1 + (IF op[c] = "get" THEN 1 ELSE Len(records[c]))

\* a set of two records whose first upsert failed: three requests, root,
\* record 1, record 2, and the failed one was not sent again
C14_Witness ==
    \E c \in Callers :
        /\ pc[c] = "done" /\ op[c] = "set" /\ Len(records[c]) = 2
        /\ Len(reqs[c]) = 3
        /\ reqs[c][1].kind = "root"
        /\ reqs[c][2].kind = "upsert" /\ reqs[c][2].idx = 1
        /\ reqs[c][3].kind = "upsert" /\ reqs[c][3].idx = 2
        /\ RemoteFailed(c, 1) /\ RemoteOk(c, 2)

(***************************************************************************)
(* C15  Record id on write                                                 *)
(***************************************************************************)
IsDecimal(s) == Len(s) > 0 /\ \A i \in 1..Len(s) : IsDigit(SubSeq(s, i, i))

\* C15: the provider record id written is 0 for every id that is empty or
\* not a decimal number, also one that only starts with digits, and the
\* number itself for a decimal id.
C15_IdParsing ==
    TWrote =>
        IF IsDecimal(tRec.ID)
        THEN Sprint(tDns.rec.ID) = tRec.ID
        ELSE tDns.rec.ID = 0

(***************************************************************************)
(* C16  Zone normalisation                                                 *)
(***************************************************************************)
\* C16: the domain the facade works with is the zone without its last
\* character when that is a ".", and the zone unchanged otherwise: one
\* trailing separator is stripped and nothing more.
C16_OneSeparatorStripped ==
    (TWrote \/ TReadBack) =>
        tDomain = IF HasSuffix(tZone, ".")
                  THEN SubSeq(tZone, 1, Len(tZone) - 1)
                  ELSE tZone

(***************************************************************************)
(* C17  The client lock is released on every return path                   *)
(***************************************************************************)
\* no caller waits at Lock or for the transport, and the mutex is free
Quiescent ==
    /\ mutex = {}
    /\ \A c \in Callers : pc[c] \in {"idle", "done"}

\* C17: a caller holds the mutex only while its client operation is under
\* way, never after the operation has returned, however it returned; and,
\* the transport returning, every operation waiting at Lock gets the mutex
\* and every call that was started runs to its return, whatever failed
\* before it on the same client: from some point on no caller is left
\* waiting and the mutex is free.
C17_LockRelease ==
    /\ [](\A c \in Callers : c \in mutex => pc[c] = "wait")
    /\ <>[]Quiescent

\* one caller's operation has failed and returned, and another caller holds
\* the mutex after it
C17_Witness ==
    \E c1, c2 \in Callers :
        /\ c1 # c2
        /\ \E k \in 1..Len(returned[c1]) : ~returned[c1][k].ok
        /\ c1 \notin mutex
        /\ Len(returned[c2]) = 0 /\ c2 \in mutex /\ pc[c2] = "wait"

====
